---------------------------- MODULE Spec2Model ----------------------------
(***************************************************************************)
(* Overlap-add FFT convolution of tests/test_multiq_linear_phase.py:       *)
(* create_flat_ir_frequency_domain builds the pass-through IR spectrum,    *)
(* process_overlap_add pushes a stream through the input ring buffer, the  *)
(* overlap-add accumulator and the latency delay line.                     *)
(*                                                                         *)
(* Arrays are functions on 0..n-1, as in the source.  Audio samples are    *)
(* fixed-point numbers with one fractional bit (the integer 2 is 1.0), so  *)
(* that the division by 2.0 at drain time is exact; IR taps are plain      *)
(* integers (1 is 1.0).  A spectrum is kept in formal form: bin k of the   *)
(* n-point transform of a real sequence x is the record                    *)
(* [bin |-> k, n |-> n, of |-> <<x>>]; the product of two bins with the    *)
(* same index lists both sequences (convolution theorem), and the inverse  *)
(* transform evaluates the circular convolution modulo n.  Arithmetic is   *)
(* exact: the rounding of the floating-point transforms is not modelled.   *)
(***************************************************************************)
EXTENDS Integers, Sequences, FiniteSets, TLC

\* ------------------------------------------------------------------ bounds
MaxSamples == 24       \* longest stream fed to one call
MaxNonZero == 2        \* at most this many non-zero samples fed in a behaviour
MaxShort == 10         \* longest stream of a block-fed or repeated call
MaxBlock == 3          \* largest host block
MaxCalls == 2          \* calls made with the same IR
MaxChannel == 7        \* longest stream of each of two channels
MaxFreqs == 3          \* test frequencies measured by test_comb_filtering

FilterLengths == {2, 3, 4}         \* filter_length arguments tried
SampleValues == {2}                \* non-zero sample values: 1.0 in fixed point

VARIABLES
  filter_length,   \* argument filter_length of the calls
  ir_freq_domain,  \* the IR array shared by the calls (interleaved re/im)
  input_signal,    \* samples of input_signal the running call has reached
  loc,             \* locals of the running call of process_overlap_add
  peer_signal,     \* input of a second activation (variant or channel)
  peer,            \* locals of the second activation
  returned,        \* arguments and results of the calls that returned
  block_sizes,     \* sizes of the host blocks fed so far
  script           \* locals and position of the test script around the calls

vars == <<filter_length, ir_freq_domain, input_signal, loc,
          peer_signal, peer, returned, block_sizes, script>>

\* ------------------------------------------------------------ array helpers
Zeros(n) == [j \in 0..(n - 1) |-> 0]

Size(a) == Cardinality(DOMAIN a)

Store(a, v) == [j \in 0..Size(a) |-> IF j < Size(a) THEN a[j] ELSE v]

NonZeroCount(a) == Cardinality({j \in DOMAIN a : a[j] # 0})

IsPowerOfTwo(n) == \E e \in 0..n : 2 ^ e = n

\* ------------------------------------------------------- float arithmetic
\* the non-finite float (nan, and inf, which the transforms turn into nan),
\* kept as an integer no finite sample of a bounded stream reaches
NaN == -1000000

\* a + b and a * b on floats: a non-finite operand makes the result non-finite
FAdd(a, b) == IF a = NaN \/ b = NaN THEN NaN ELSE a + b

FMul(a, b) == IF a = NaN \/ b = NaN THEN NaN ELSE a * b

\* ------------------------------------------------------------ transforms
ZeroCell == [part |-> "zero", c |-> [bin |-> 0, n |-> 0, of |-> <<>>]]

RealPart(c) == [part |-> "re", c |-> c]

ImagPart(c) == [part |-> "im", c |-> c]

\* re + 1j * im
Complex(re, im) ==
  IF re.part = "re" /\ im.part = "im" /\ re.c = im.c
    THEN re.c
    ELSE [bin |-> -1, n |-> 0, of |-> <<>>]

\* np.fft.rfft(x, n): bins 0..n/2 of the n-point transform
rfft(x, n) == [k \in 0..(n \div 2) |-> [bin |-> k, n |-> n, of |-> <<x>>]]

\* element-wise complex product of two bins
ComplexMul(a, b) ==
  IF a.bin = b.bin /\ a.n = b.n /\ a.bin >= 0
    THEN [bin |-> a.bin, n |-> a.n, of |-> a.of \o b.of]
    ELSE [bin |-> -1, n |-> 0, of |-> <<>>]

RECURSIVE SumTerms(_, _, _, _, _)
SumTerms(x, h, j, n, m) ==
  IF m = n THEN 0
  ELSE FAdd(FMul(x[m], h[(j - m) % n]), SumTerms(x, h, j, n, m + 1))

\* circular convolution modulo n
CircConv(x, h, n) == [j \in 0..(n - 1) |-> SumTerms(x, h, j, n, 0)]

RECURSIVE ConvAll(_, _)
ConvAll(xs, n) ==
  IF Len(xs) = 1 THEN xs[1]
  ELSE CircConv(xs[1], ConvAll(Tail(xs), n), n)

\* np.fft.irfft(spectrum, n): defined by the convolution theorem when bin k
\* of the spectrum is bin k of one product of transforms
irfft(spectrum, n) ==
  IF /\ DOMAIN spectrum = 0..(n \div 2)
     /\ \A k \in DOMAIN spectrum :
          /\ spectrum[k].bin = k
          /\ spectrum[k].n = n
          /\ spectrum[k].of = spectrum[0].of
    THEN ConvAll(spectrum[0].of, n)
    ELSE Zeros(n)

\* ------------------------------------------- create_flat_ir_frequency_domain
\* lines 29-35 for any time-domain response h: forward transform, then
\* real and imaginary parts interleaved into 2 * conv_fft_size cells
InterleavedSpectrum(h, conv_fft_size) ==
  LET freq_domain == rfft(h, conv_fft_size)
  IN  [c \in 0..(conv_fft_size * 2 - 1) |->
         IF c \div 2 < Size(freq_domain)
           THEN IF c % 2 = 0 THEN RealPart(freq_domain[c \div 2])
                             ELSE ImagPart(freq_domain[c \div 2])
           ELSE ZeroCell]

\* the IR of an impulse placed a whole filter length later, so that a
\* window convolved with it runs past the end of the block
create_flat_ir_wrapping(L, conv_fft_size) ==
  LET time_domain == [j \in 0..(conv_fft_size - 1) |->
                        IF j = L + L \div 2 THEN 1 ELSE 0]
      freq_domain == rfft(time_domain, conv_fft_size)
  IN  [c \in 0..(conv_fft_size * 2 - 1) |->
         IF c \div 2 < Size(freq_domain)
           THEN IF c % 2 = 0 THEN RealPart(freq_domain[c \div 2])
                             ELSE ImagPart(freq_domain[c \div 2])
           ELSE ZeroCell]

\* the IR stored with all real parts first and all imaginary parts after
create_flat_ir_planar(L, conv_fft_size) ==
  LET time_domain == [j \in 0..(conv_fft_size - 1) |->
                        IF j = L \div 2 THEN 1 ELSE 0]
      freq_domain == rfft(time_domain, conv_fft_size)
      bins        == Size(freq_domain)
  IN  [c \in 0..(conv_fft_size * 2 - 1) |->
         IF c < bins THEN RealPart(freq_domain[c])
         ELSE IF c < 2 * bins THEN ImagPart(freq_domain[c - bins])
         ELSE ZeroCell]

\* lines 12-37
create_flat_ir_frequency_domain(L, conv_fft_size) ==
  LET time_domain == [j \in 0..(conv_fft_size - 1) |->
                        IF j = L \div 2 THEN 1 ELSE 0]
      freq_domain == rfft(time_domain, conv_fft_size)
  IN  [c \in 0..(conv_fft_size * 2 - 1) |->
         IF c \div 2 < Size(freq_domain)
           THEN IF c % 2 = 0 THEN RealPart(freq_domain[c \div 2])
                             ELSE ImagPart(freq_domain[c \div 2])
           ELSE ZeroCell]


\* ------------------------------------------------------ process_overlap_add
\* InitLocals with the delay write cursor starting at the read cursor
InitLocalsNoLead(L) ==
  [ fft_size          |-> L * 2,
    hop_size          |-> L \div 2,
    latency           |-> L \div 2,
    input_accum       |-> Zeros(L),
    output_accum      |-> Zeros(L * 2 * 2),
    latency_delay     |-> Zeros(L * 2 * 2),
    contrib           |-> [p \in 0..(L * 2 * 2 - 1) |-> << >>],
    input_write_pos   |-> 0,
    output_read_pos   |-> 0,
    delay_write_pos   |-> 0,
    delay_read_pos    |-> 0,
    samples_in_buffer |-> 0,
    output            |-> << >>,
    i                 |-> -1,
    fft_buffer        |-> << >>,
    time_output       |-> << >>,
    triggered         |-> << >>,
    drained           |-> << >>,
    written           |-> << >>,
    pc                |-> "loop" ]

\* InitLocals with a hop of the whole filter length (no overlap)
InitLocalsFullHop(L) ==
  [ fft_size          |-> L * 2,
    hop_size          |-> L,
    latency           |-> L \div 2,
    input_accum       |-> Zeros(L),
    output_accum      |-> Zeros(L * 2 * 2),
    latency_delay     |-> Zeros(L * 2 * 2),
    contrib           |-> [p \in 0..(L * 2 * 2 - 1) |-> << >>],
    input_write_pos   |-> 0,
    output_read_pos   |-> 0,
    delay_write_pos   |-> L \div 2,
    delay_read_pos    |-> 0,
    samples_in_buffer |-> 0,
    output            |-> << >>,
    i                 |-> -1,
    fft_buffer        |-> << >>,
    time_output       |-> << >>,
    triggered         |-> << >>,
    drained           |-> << >>,
    written           |-> << >>,
    pc                |-> "loop" ]

\* lines 50-67: sizes, buffers, positions and the output array; i is the
\* index of the loop iteration in progress (-1 before the loop), pc the
\* statement the call executes next, triggered and drained the iterations
\* whose block was entered and whose drain completed, contrib[p] what
\* the blocks added to accumulator cell p since it was last cleared (the
\* number of the block, the index j of its time_output, the value),
\* written the values stored in the delay line so far, in the order drained
InitLocals(L) ==
  [ fft_size          |-> L * 2,
    hop_size          |-> L \div 2,
    latency           |-> L \div 2,
    input_accum       |-> Zeros(L),
    output_accum      |-> Zeros(L * 2 * 2),
    latency_delay     |-> Zeros(L * 2 * 2),
    contrib           |-> [p \in 0..(L * 2 * 2 - 1) |-> << >>],
    input_write_pos   |-> 0,
    output_read_pos   |-> 0,
    delay_write_pos   |-> L \div 2,
    delay_read_pos    |-> 0,
    samples_in_buffer |-> 0,
    output            |-> << >>,
    i                 |-> -1,
    fft_buffer        |-> << >>,
    time_output       |-> << >>,
    triggered         |-> << >>,
    drained           |-> << >>,
    written           |-> << >>,
    pc                |-> "loop" ]

\* PushSample with the hop test of line 76 strict (>) instead of >=
PushSampleLate(l, x, L) ==
  [l EXCEPT
     !.i                 = l.i + 1,
     !.input_accum       = [l.input_accum EXCEPT ![l.input_write_pos] = x],
     !.input_write_pos   = (l.input_write_pos + 1) % L,
     !.samples_in_buffer = l.samples_in_buffer + 1,
     !.triggered         = IF l.samples_in_buffer + 1 > l.hop_size
                             THEN Append(l.triggered, l.i + 1)
                             ELSE l.triggered,
     !.pc                = IF l.samples_in_buffer + 1 > l.hop_size
                             THEN "gather" ELSE "read"]

\* PushSample without the wrap of line 72
PushSampleNoWrap(l, x, L) ==
  [l EXCEPT
     !.i                 = l.i + 1,
     !.input_accum       = [l.input_accum EXCEPT ![l.input_write_pos] = x],
     !.input_write_pos   = l.input_write_pos + 1,
     !.samples_in_buffer = l.samples_in_buffer + 1,
     !.triggered         = IF l.samples_in_buffer + 1 >= l.hop_size
                             THEN Append(l.triggered, l.i + 1)
                             ELSE l.triggered,
     !.pc                = IF l.samples_in_buffer + 1 >= l.hop_size
                             THEN "gather" ELSE "read"]

\* PushSample storing the sample one cell past the write cursor
PushSampleAhead(l, x, L) ==
  [l EXCEPT
     !.i                 = l.i + 1,
     !.input_accum       = [l.input_accum EXCEPT ![(l.input_write_pos + 1) % L] = x],
     !.input_write_pos   = (l.input_write_pos + 1) % L,
     !.samples_in_buffer = l.samples_in_buffer + 1,
     !.triggered         = IF l.samples_in_buffer + 1 >= l.hop_size
                             THEN Append(l.triggered, l.i + 1)
                             ELSE l.triggered,
     !.pc                = IF l.samples_in_buffer + 1 >= l.hop_size
                             THEN "gather" ELSE "read"]

\* lines 69-76: store the sample in the ring buffer, test for a full hop
PushSample(l, x, L) ==
  [l EXCEPT
     !.i                 = l.i + 1,
     !.input_accum       = [l.input_accum EXCEPT ![l.input_write_pos] = x],
     !.input_write_pos   = (l.input_write_pos + 1) % L,
     !.samples_in_buffer = l.samples_in_buffer + 1,
     !.triggered         = IF l.samples_in_buffer + 1 >= l.hop_size
                             THEN Append(l.triggered, l.i + 1)
                             ELSE l.triggered,
     !.pc                = IF l.samples_in_buffer + 1 >= l.hop_size
                             THEN "gather" ELSE "read"]

\* GatherWindow that empties the ring buffer as it copies it
GatherWindowConsuming(l, L) ==
  [l EXCEPT
     !.fft_buffer = [j \in 0..(l.fft_size - 1) |->
                       IF j < L
                         THEN l.input_accum[(l.input_write_pos - L + j + L) % L]
                         ELSE 0],
     !.input_accum = Zeros(L),
     !.pc = "convolve"]

\* GatherWindow copying the ring buffer in storage order
GatherWindowUnrotated(l, L) ==
  [l EXCEPT
     !.fft_buffer = [j \in 0..(l.fft_size - 1) |->
                       IF j < L THEN l.input_accum[j] ELSE 0],
     !.pc = "convolve"]

\* lines 78-82: the last filter_length samples, oldest first, zero-padded
GatherWindow(l, L) ==
  [l EXCEPT
     !.fft_buffer = [j \in 0..(l.fft_size - 1) |->
                       IF j < L
                         THEN l.input_accum[(l.input_write_pos - L + j + L) % L]
                         ELSE 0],
     !.pc = "convolve"]

\* lines 85-92: forward transform, product with the IR, inverse transform
Convolve(l, ir) ==
  LET freq_input  == rfft(l.fft_buffer, l.fft_size)
      ir_complex  == [k \in DOMAIN freq_input |->
                        Complex(ir[2 * k], ir[2 * k + 1])]
      freq_output == [k \in DOMAIN freq_input |->
                        ComplexMul(freq_input[k], ir_complex[k])]
  IN  [l EXCEPT !.time_output = irfft(freq_output, l.fft_size),
                !.pc = "add"]

\* OverlapAdd that moves output_read_pos on by a hop itself
OverlapAddAdvances(l) ==
  [l EXCEPT
     !.output_accum =
        [p \in DOMAIN l.output_accum |->
           LET j == (p - l.output_read_pos) % (l.fft_size * 2)
           IN  IF j < l.fft_size
                 THEN FAdd(l.output_accum[p], l.time_output[j])
                 ELSE l.output_accum[p]],
     !.contrib =
        [p \in DOMAIN l.output_accum |->
           LET j == (p - l.output_read_pos) % (l.fft_size * 2)
           IN  IF j < l.fft_size
                 THEN Append(l.contrib[p], [block |-> Len(l.triggered), j |-> j,
                                            value |-> l.time_output[j]])
                 ELSE l.contrib[p]],
     !.output_read_pos = (l.output_read_pos + l.hop_size) % (l.fft_size * 2),
     !.pc = "drain"]

\* OverlapAdd writing one hop further on than output_read_pos
OverlapAddShifted(l) ==
  [l EXCEPT
     !.output_accum =
        [p \in DOMAIN l.output_accum |->
           LET j == (p - l.output_read_pos - l.hop_size) % (l.fft_size * 2)
           IN  IF j < l.fft_size
                 THEN FAdd(l.output_accum[p], l.time_output[j])
                 ELSE l.output_accum[p]],
     !.contrib =
        [p \in DOMAIN l.output_accum |->
           LET j == (p - l.output_read_pos - l.hop_size) % (l.fft_size * 2)
           IN  IF j < l.fft_size
                 THEN Append(l.contrib[p], [block |-> Len(l.triggered), j |-> j,
                                            value |-> l.time_output[j]])
                 ELSE l.contrib[p]],
     !.pc = "drain"]

\* lines 95-97: accumulate the whole block at output_read_pos
OverlapAdd(l) ==
  [l EXCEPT
     !.output_accum =
        [p \in DOMAIN l.output_accum |->
           LET j == (p - l.output_read_pos) % (l.fft_size * 2)
           IN  IF j < l.fft_size
                 THEN FAdd(l.output_accum[p], l.time_output[j])
                 ELSE l.output_accum[p]],
     !.contrib =
        [p \in DOMAIN l.output_accum |->
           LET j == (p - l.output_read_pos) % (l.fft_size * 2)
           IN  IF j < l.fft_size
                 THEN Append(l.contrib[p], [block |-> Len(l.triggered), j |-> j,
                                            value |-> l.time_output[j]])
                 ELSE l.contrib[p]],
     !.pc = "drain"]

\* Halve dividing by 4
HalveByFour(v) == IF v = NaN THEN NaN ELSE v \div 4

\* line 105: the gain compensation of the 50% overlap
Halve(v) == IF v = NaN THEN NaN ELSE v \div 2

\* Drain storing each hop in the delay line last sample first
DrainReversed(l, halve) ==
  LET size == l.fft_size * 2
      src(j) == (l.output_read_pos + j) % size
      dst(j) == (l.delay_write_pos + j) % size
  IN  [l EXCEPT
         !.latency_delay =
            [p \in DOMAIN l.latency_delay |->
               LET j == (p - l.delay_write_pos) % size
               IN  IF j < l.hop_size
                     THEN IF halve
                            THEN Halve(l.output_accum[src(l.hop_size - 1 - j)])
                            ELSE l.output_accum[src(l.hop_size - 1 - j)]
                     ELSE l.latency_delay[p]],
         !.output_accum =
            [p \in DOMAIN l.output_accum |->
               IF (p - l.output_read_pos) % size < l.hop_size
                 THEN 0 ELSE l.output_accum[p]],
         !.contrib =
            [p \in DOMAIN l.output_accum |->
               IF (p - l.output_read_pos) % size < l.hop_size
                 THEN << >> ELSE l.contrib[p]],
         !.delay_write_pos   = dst(l.hop_size),
         !.output_read_pos   = (l.output_read_pos + l.hop_size) % size,
         !.samples_in_buffer = 0,
         !.drained           = Append(l.drained, l.i),
         !.written           =
            l.written \o [j \in 1..l.hop_size |->
                            IF halve THEN Halve(l.output_accum[src(j - 1)])
                                     ELSE l.output_accum[src(j - 1)]],
         !.pc                = "read"]

\* Drain without the clearing of line 106
DrainNoClear(l, halve) ==
  LET size == l.fft_size * 2
      src(j) == (l.output_read_pos + j) % size
      dst(j) == (l.delay_write_pos + j) % size
  IN  [l EXCEPT
         !.latency_delay =
            [p \in DOMAIN l.latency_delay |->
               LET j == (p - l.delay_write_pos) % size
               IN  IF j < l.hop_size
                     THEN IF halve THEN Halve(l.output_accum[src(j)])
                                   ELSE l.output_accum[src(j)]
                     ELSE l.latency_delay[p]],
         !.delay_write_pos   = dst(l.hop_size),
         !.output_read_pos   = (l.output_read_pos + l.hop_size) % size,
         !.samples_in_buffer = 0,
         !.drained           = Append(l.drained, l.i),
         !.written           =
            l.written \o [j \in 1..l.hop_size |->
                            IF halve THEN Halve(l.output_accum[src(j - 1)])
                                     ELSE l.output_accum[src(j - 1)]],
         !.pc                = "read"]

\* Drain without the advance of output_read_pos of line 109
DrainKeepsReadPos(l, halve) ==
  LET size == l.fft_size * 2
      src(j) == (l.output_read_pos + j) % size
      dst(j) == (l.delay_write_pos + j) % size
  IN  [l EXCEPT
         !.latency_delay =
            [p \in DOMAIN l.latency_delay |->
               LET j == (p - l.delay_write_pos) % size
               IN  IF j < l.hop_size
                     THEN IF halve THEN Halve(l.output_accum[src(j)])
                                   ELSE l.output_accum[src(j)]
                     ELSE l.latency_delay[p]],
         !.output_accum =
            [p \in DOMAIN l.output_accum |->
               IF (p - l.output_read_pos) % size < l.hop_size
                 THEN 0 ELSE l.output_accum[p]],
         !.contrib =
            [p \in DOMAIN l.output_accum |->
               IF (p - l.output_read_pos) % size < l.hop_size
                 THEN << >> ELSE l.contrib[p]],
         !.delay_write_pos   = dst(l.hop_size),
         !.samples_in_buffer = 0,
         !.drained           = Append(l.drained, l.i),
         !.written           =
            l.written \o [j \in 1..l.hop_size |->
                            IF halve THEN Halve(l.output_accum[src(j - 1)])
                                     ELSE l.output_accum[src(j - 1)]],
         !.pc                = "read"]

\* Drain clearing the whole block region instead of the drained hop
DrainWholeBlock(l, halve) ==
  LET size == l.fft_size * 2
      src(j) == (l.output_read_pos + j) % size
      dst(j) == (l.delay_write_pos + j) % size
  IN  [l EXCEPT
         !.latency_delay =
            [p \in DOMAIN l.latency_delay |->
               LET j == (p - l.delay_write_pos) % size
               IN  IF j < l.hop_size
                     THEN IF halve THEN Halve(l.output_accum[src(j)])
                                   ELSE l.output_accum[src(j)]
                     ELSE l.latency_delay[p]],
         !.output_accum =
            [p \in DOMAIN l.output_accum |->
               IF (p - l.output_read_pos) % size < l.fft_size
                 THEN 0 ELSE l.output_accum[p]],
         !.contrib =
            [p \in DOMAIN l.output_accum |->
               IF (p - l.output_read_pos) % size < l.hop_size
                 THEN << >> ELSE l.contrib[p]],
         !.delay_write_pos   = dst(l.hop_size),
         !.output_read_pos   = (l.output_read_pos + l.hop_size) % size,
         !.samples_in_buffer = 0,
         !.drained           = Append(l.drained, l.i),
         !.written           =
            l.written \o [j \in 1..l.hop_size |->
                            IF halve THEN Halve(l.output_accum[src(j - 1)])
                                     ELSE l.output_accum[src(j - 1)]],
         !.pc                = "read"]

\* lines 103-110: move hop_size samples to the delay line, clear them,
\* advance the cursors; halve is FALSE only in the variant without the
\* division of line 105
Drain(l, halve) ==
  LET size == l.fft_size * 2
      src(j) == (l.output_read_pos + j) % size
      dst(j) == (l.delay_write_pos + j) % size
  IN  [l EXCEPT
         !.latency_delay =
            [p \in DOMAIN l.latency_delay |->
               LET j == (p - l.delay_write_pos) % size
               IN  IF j < l.hop_size
                     THEN IF halve THEN Halve(l.output_accum[src(j)])
                                   ELSE l.output_accum[src(j)]
                     ELSE l.latency_delay[p]],
         !.output_accum =
            [p \in DOMAIN l.output_accum |->
               IF (p - l.output_read_pos) % size < l.hop_size
                 THEN 0 ELSE l.output_accum[p]],
         !.contrib =
            [p \in DOMAIN l.output_accum |->
               IF (p - l.output_read_pos) % size < l.hop_size
                 THEN << >> ELSE l.contrib[p]],
         !.delay_write_pos   = dst(l.hop_size),
         !.output_read_pos   = (l.output_read_pos + l.hop_size) % size,
         !.samples_in_buffer = 0,
         !.drained           = Append(l.drained, l.i),
         !.written           =
            l.written \o [j \in 1..l.hop_size |->
                            IF halve THEN Halve(l.output_accum[src(j - 1)])
                                     ELSE l.output_accum[src(j - 1)]],
         !.pc                = "read"]

\* ReadDelay taking the cell latency places ahead of the read cursor
ReadDelayAhead(l) ==
  [l EXCEPT
     !.output         = Store(l.output,
                              l.latency_delay[(l.delay_read_pos + l.latency)
                                                % (l.fft_size * 2)]),
     !.delay_read_pos = (l.delay_read_pos + 1) % (l.fft_size * 2),
     !.pc             = "loop"]

\* ReadDelay with the read cursor wrapped at fft_size instead of 2*fft_size
ReadDelayShortWrap(l) ==
  [l EXCEPT
     !.output         = Store(l.output, l.latency_delay[l.delay_read_pos]),
     !.delay_read_pos = (l.delay_read_pos + 1) % l.fft_size,
     !.pc             = "loop"]

\* lines 113-114: one output sample per input sample
ReadDelay(l) ==
  [l EXCEPT
     !.output         = Store(l.output, l.latency_delay[l.delay_read_pos]),
     !.delay_read_pos = (l.delay_read_pos + 1) % (l.fft_size * 2),
     !.pc             = "loop"]

\* lines 70-114: one iteration of the loop
LoopBody(l, x, ir, L, halve) ==
  LET pushed == PushSample(l, x, L)
  IN  IF pushed.pc = "gather"
        THEN ReadDelay(Drain(OverlapAdd(Convolve(GatherWindow(pushed, L), ir)),
                             halve))
        ELSE ReadDelay(pushed)


\* lines 69-114: the loop over the samples of xs, from index j on
RECURSIVE Iterate(_, _, _, _, _, _)
Iterate(l, xs, j, ir, L, halve) ==
  IF j = Size(xs) THEN l
  ELSE Iterate(LoopBody(l, xs[j], ir, L, halve), xs, j + 1, ir, L, halve)

\* Loop that clears samples_in_buffer whenever it is entered
LoopClearsHop(l, xs, ir, L, halve) ==
  Iterate([l EXCEPT !.samples_in_buffer = 0], xs, 0, ir, L, halve)

\* line 69: for i in range(len(input_signal)), on the locals l
Loop(l, xs, ir, L, halve) == Iterate(l, xs, 0, ir, L, halve)

\* EnterCall that finds the buffers and positions the previous call left
EnterCallStale(prev, L) ==
  IF prev.pc = "idle"
    THEN InitLocals(L)
    ELSE [prev EXCEPT !.output = << >>, !.i = -1, !.triggered = << >>,
                      !.drained = << >>, !.pc = "loop"]

\* lines 50-67: every call creates its locals anew, whatever the locals
\* prev of the call before it held
EnterCall(prev, L) == InitLocals(L)

\* lines 40-116: the whole call on a whole stream
process_overlap_add(xs, ir, L) ==
  Loop(EnterCall([pc |-> "idle"], L), xs, ir, L, TRUE).output

\* a host block fed to the engine: one process step per sample of the
\* block, on the buffers and cursors the block before it left
ProcessHostBlock(l, block, ir, L) == Loop(l, block, ir, L, TRUE)

\* StepChannel with the delay-line cursors shared between the channels
StepChannelShared(mine, other, x, ir, L) ==
  LoopBody([mine EXCEPT !.delay_read_pos = other.delay_read_pos,
                        !.delay_write_pos = other.delay_write_pos],
           x, ir, L, TRUE)

\* lines 54-64 and 70-114: a process step works on the buffers and
\* positions of its own activation only
StepChannel(mine, other, x, ir, L) == LoopBody(mine, x, ir, L, TRUE)

Concat(a, b) ==
  [j \in 0..(Size(a) + Size(b) - 1) |->
     IF j < Size(a) THEN a[j] ELSE b[j - Size(a)]]

\* ------------------------------------------------------------ one call, by
\* statement (main, lines 144-148, calls create_flat_ir_frequency_domain and
\* then process_overlap_add)
Init ==
  /\ filter_length \in FilterLengths
  /\ ir_freq_domain = << >>
  /\ input_signal = << >>
  /\ loc = [pc |-> "idle"]
  /\ peer_signal = << >>
  /\ peer = [pc |-> "idle"]
  /\ returned = << >>
  /\ block_sizes = {}
  /\ script = [pc |-> "idle"]

BuildIR ==
  /\ loc.pc = "idle"
  /\ ir_freq_domain = << >>
  /\ ir_freq_domain' =
       create_flat_ir_frequency_domain(filter_length, filter_length * 2)
  /\ UNCHANGED <<script, filter_length, input_signal, loc,
                 peer_signal, peer, returned, block_sizes>>

Call ==
  /\ loc.pc = "idle"
  /\ ir_freq_domain # << >>
  /\ loc' = EnterCall(loc, filter_length)
  /\ input_signal' = << >>
  /\ UNCHANGED <<script, filter_length, ir_freq_domain,
                 peer_signal, peer, returned, block_sizes>>

Push ==
  /\ loc.pc = "loop"
  /\ Size(input_signal) < MaxSamples
  /\ \E x \in SampleValues \cup {0} :
       /\ x # 0 => NonZeroCount(input_signal) < MaxNonZero
       /\ input_signal' = Store(input_signal, x)
       /\ loc' = PushSample(loc, x, filter_length)
  /\ UNCHANGED <<script, filter_length, ir_freq_domain,
                 peer_signal, peer, returned, block_sizes>>

Gather ==
  /\ loc.pc = "gather"
  /\ loc' = GatherWindow(loc, filter_length)
  /\ UNCHANGED <<script, filter_length, ir_freq_domain, input_signal,
                 peer_signal, peer, returned, block_sizes>>

Transform ==
  /\ loc.pc = "convolve"
  /\ loc' = Convolve(loc, ir_freq_domain)
  /\ UNCHANGED <<script, filter_length, ir_freq_domain, input_signal,
                 peer_signal, peer, returned, block_sizes>>

Accumulate ==
  /\ loc.pc = "add"
  /\ loc' = OverlapAdd(loc)
  /\ UNCHANGED <<script, filter_length, ir_freq_domain, input_signal,
                 peer_signal, peer, returned, block_sizes>>

Transfer ==
  /\ loc.pc = "drain"
  /\ loc' = Drain(loc, TRUE)
  /\ UNCHANGED <<script, filter_length, ir_freq_domain, input_signal,
                 peer_signal, peer, returned, block_sizes>>

Read ==
  /\ loc.pc = "read"
  /\ loc' = ReadDelay(loc)
  /\ UNCHANGED <<script, filter_length, ir_freq_domain, input_signal,
                 peer_signal, peer, returned, block_sizes>>

\* line 116: the stream is exhausted
Return ==
  /\ loc.pc = "loop"
  /\ loc' = [loc EXCEPT !.pc = "done"]
  /\ returned' = Append(returned, [input_signal |-> input_signal,
                                   output |-> loc.output])
  /\ UNCHANGED <<script, filter_length, ir_freq_domain, input_signal,
                 peer_signal, peer, block_sizes>>

Next ==
  \/ BuildIR
  \/ Call
  \/ Push
  \/ Gather
  \/ Transform
  \/ Accumulate
  \/ Transfer
  \/ Read
  \/ Return

Spec == Init /\ [][Next]_vars

\* ------------------------------------------- the call beside its variant
\* without the division of line 105, both fed the same stream
InitHalving ==
  /\ filter_length \in FilterLengths
  /\ ir_freq_domain =
       create_flat_ir_frequency_domain(filter_length, filter_length * 2)
  /\ input_signal = << >>
  /\ loc = EnterCall([pc |-> "idle"], filter_length)
  /\ peer_signal = << >>
  /\ peer = EnterCall([pc |-> "idle"], filter_length)
  /\ returned = << >>
  /\ block_sizes = {}
  /\ script = [pc |-> "idle"]

StepBoth ==
  /\ Size(input_signal) < MaxSamples
  /\ \E x \in SampleValues \cup {0} :
       /\ x # 0 => NonZeroCount(input_signal) < MaxNonZero
       /\ input_signal' = Store(input_signal, x)
       /\ peer_signal' = Store(peer_signal, x)
       /\ loc' = LoopBody(loc, x, ir_freq_domain, filter_length, TRUE)
       /\ peer' = LoopBody(peer, x, ir_freq_domain, filter_length, FALSE)
  /\ UNCHANGED <<script, filter_length, ir_freq_domain, returned, block_sizes>>

NextHalving == StepBoth

SpecHalving == InitHalving /\ [][NextHalving]_vars

\* --------------------------------------------- one engine fed host blocks
InitBlocks ==
  /\ filter_length \in FilterLengths
  /\ ir_freq_domain =
       create_flat_ir_frequency_domain(filter_length, filter_length * 2)
  /\ input_signal = << >>
  /\ loc = EnterCall([pc |-> "idle"], filter_length)
  /\ peer_signal = << >>
  /\ peer = [pc |-> "idle"]
  /\ returned = << >>
  /\ block_sizes = {}
  /\ script = [pc |-> "idle"]

HostBlock ==
  \E n \in 1..MaxBlock :
    /\ Size(input_signal) + n <= MaxShort
    /\ \E block \in [0..(n - 1) -> SampleValues \cup {0}] :
         /\ NonZeroCount(input_signal) + NonZeroCount(block) <= MaxNonZero
         /\ input_signal' = Concat(input_signal, block)
         /\ loc' = ProcessHostBlock(loc, block, ir_freq_domain, filter_length)
    /\ block_sizes' = block_sizes \cup {n}
    /\ UNCHANGED <<script, filter_length, ir_freq_domain, peer_signal, peer, returned>>

NextBlocks == HostBlock

SpecBlocks == InitBlocks /\ [][NextBlocks]_vars

\* ------------------------- calls repeated with the same IR and the stream
\* of the first call (test_comb_filtering, lines 228-239, reuses one IR)
CallAgain ==
  /\ loc.pc = "done"
  /\ Len(returned) < MaxCalls
  /\ loc' = EnterCall(loc, filter_length)
  /\ input_signal' = << >>
  /\ UNCHANGED <<script, filter_length, ir_freq_domain,
                 peer_signal, peer, returned, block_sizes>>

\* Sample in which the engine stores zeros over the IR it was given
SampleWritesIR ==
  /\ loc.pc = "loop"
  /\ Size(input_signal) < MaxShort
  /\ \E x \in SampleValues \cup {0} :
       /\ x # 0 => NonZeroCount(input_signal) < MaxNonZero
       /\ returned # << >> =>
            /\ Size(input_signal) < Size(returned[1].input_signal)
            /\ x = returned[1].input_signal[Size(input_signal)]
       /\ input_signal' = Store(input_signal, x)
       /\ loc' = LoopBody(loc, x, ir_freq_domain, filter_length, TRUE)
  /\ ir_freq_domain' = [c \in DOMAIN ir_freq_domain |-> ZeroCell]
  /\ UNCHANGED <<script, filter_length, peer_signal, peer, returned, block_sizes>>

Sample ==
  /\ loc.pc = "loop"
  /\ Size(input_signal) < MaxShort
  /\ \E x \in SampleValues \cup {0} :
       /\ x # 0 => NonZeroCount(input_signal) < MaxNonZero
       /\ returned # << >> =>
            /\ Size(input_signal) < Size(returned[1].input_signal)
            /\ x = returned[1].input_signal[Size(input_signal)]
       /\ input_signal' = Store(input_signal, x)
       /\ loc' = LoopBody(loc, x, ir_freq_domain, filter_length, TRUE)
  /\ UNCHANGED <<script, filter_length, ir_freq_domain,
                 peer_signal, peer, returned, block_sizes>>

NextRerun ==
  \/ BuildIR
  \/ Call
  \/ Sample
  \/ Return
  \/ CallAgain

SpecRerun == Init /\ [][NextRerun]_vars

\* ------------------------------ two channels sharing one IR, interleaved
InitChannels ==
  /\ filter_length \in FilterLengths
  /\ ir_freq_domain =
       create_flat_ir_frequency_domain(filter_length, filter_length * 2)
  /\ input_signal = << >>
  /\ loc = EnterCall([pc |-> "idle"], filter_length)
  /\ peer_signal = << >>
  /\ peer = EnterCall([pc |-> "idle"], filter_length)
  /\ returned = << >>
  /\ block_sizes = {}
  /\ script = [pc |-> "idle"]

StepFirst ==
  /\ Size(input_signal) < MaxChannel
  /\ \E x \in SampleValues \cup {0} :
       /\ x # 0 =>
            NonZeroCount(input_signal) + NonZeroCount(peer_signal) < MaxNonZero
       /\ input_signal' = Store(input_signal, x)
       /\ loc' = StepChannel(loc, peer, x, ir_freq_domain, filter_length)
  /\ UNCHANGED <<script, filter_length, ir_freq_domain,
                 peer_signal, peer, returned, block_sizes>>

StepSecond ==
  /\ Size(peer_signal) < MaxChannel
  /\ \E x \in SampleValues \cup {0} :
       /\ x # 0 =>
            NonZeroCount(input_signal) + NonZeroCount(peer_signal) < MaxNonZero
       /\ peer_signal' = Store(peer_signal, x)
       /\ peer' = StepChannel(peer, loc, x, ir_freq_domain, filter_length)
  /\ UNCHANGED <<script, filter_length, ir_freq_domain,
                 input_signal, loc, returned, block_sizes>>

NextChannels ==
  \/ StepFirst
  \/ StepSecond

SpecChannels == InitChannels /\ [][NextChannels]_vars

\* ------------------------- one call fed a stream that may hold non-finite
\* samples (process_overlap_add takes any float array)
InitDegenerate ==
  /\ filter_length \in FilterLengths
  /\ ir_freq_domain =
       create_flat_ir_frequency_domain(filter_length, filter_length * 2)
  /\ input_signal = << >>
  /\ loc = EnterCall([pc |-> "idle"], filter_length)
  /\ peer_signal = << >>
  /\ peer = [pc |-> "idle"]
  /\ returned = << >>
  /\ block_sizes = {}
  /\ script = [pc |-> "idle"]

FeedSample ==
  /\ Size(input_signal) < MaxShort
  /\ \E x \in SampleValues \cup {0, NaN} :
       /\ x # 0 => NonZeroCount(input_signal) < MaxNonZero
       /\ input_signal' = Store(input_signal, x)
       /\ loc' = LoopBody(loc, x, ir_freq_domain, filter_length, TRUE)
  /\ UNCHANGED <<script, filter_length, ir_freq_domain,
                 peer_signal, peer, returned, block_sizes>>

NextDegenerate == FeedSample

SpecDegenerate == InitDegenerate /\ [][NextDegenerate]_vars

\* ------------------------- one call given any single-tap IR of the right
\* size and a stream that may hold non-finite samples
TapValues == {1, NaN}

InitAnyIR ==
  /\ filter_length \in FilterLengths
  /\ \E d \in 0..(filter_length * 2 - 1) : \E g \in TapValues :
       ir_freq_domain =
         InterleavedSpectrum([j \in 0..(filter_length * 2 - 1) |->
                                IF j = d THEN g ELSE 0],
                             filter_length * 2)
  /\ input_signal = << >>
  /\ loc = EnterCall([pc |-> "idle"], filter_length)
  /\ peer_signal = << >>
  /\ peer = [pc |-> "idle"]
  /\ returned = << >>
  /\ block_sizes = {}
  /\ script = [pc |-> "idle"]

FeedAny ==
  /\ Size(input_signal) < MaxShort
  /\ \E x \in SampleValues \cup {0, NaN} :
       /\ x # 0 => NonZeroCount(input_signal) < MaxNonZero
       /\ input_signal' = Store(input_signal, x)
       /\ loc' = LoopBody(loc, x, ir_freq_domain, filter_length, TRUE)
  /\ UNCHANGED <<script, filter_length, ir_freq_domain,
                 peer_signal, peer, returned, block_sizes>>

NextAnyIR == FeedAny

SpecAnyIR == InitAnyIR /\ [][NextAnyIR]_vars

\* --------------------------------- the test script (lines 119-276): main,
\* test_comb_filtering and the __main__ block.  Amplitudes are in halves
\* like the samples (2 is 1.0), correlations in hundredths, gains in
\* tenths of a dB.
Abs(v) == IF v < 0 THEN -v ELSE v

\* lines 172-175: np.max(np.abs(output[actual_latency:]))
MaxAbs(output, from) ==
  LET vals == {Abs(output[i]) : i \in {j \in DOMAIN output : j >= from}}
  IN  CHOOSE m \in vals : \A v \in vals : v <= m

\* main's verdict with a low correlation counted as a failure
main_verdict_strict(max_output, correlation) ==
  IF max_output * 1000 < 2 THEN [result |-> 1, message |-> "FAIL"]
  ELSE IF correlation < 90 THEN [result |-> 1, message |-> "WARNING"]
  ELSE [result |-> 0, message |-> "PASS"]

\* lines 198-211: max_output < 0.001, correlation < 0.9
main_verdict(max_output, correlation) ==
  IF max_output * 1000 < 2 THEN [result |-> 1, message |-> "FAIL"]
  ELSE IF correlation < 90 THEN [result |-> 0, message |-> "WARNING"]
  ELSE [result |-> 0, message |-> "PASS"]

\* lines 247-250: the gain of one frequency, -100 dB when either rms is 0
GainOf(rms_input_positive, rms_output_positive, ratio_db) ==
  IF rms_input_positive /\ rms_output_positive THEN ratio_db ELSE -1000

\* lines 255-256: max(gains) - min(gains) if gains else 0
GainVariation(results) ==
  LET gains == {results[k].gain_db : k \in DOMAIN results}
  IN  IF gains = {} THEN 0
      ELSE (CHOOSE m \in gains : \A g \in gains : g <= m)
             - (CHOOSE m \in gains : \A g \in gains : m <= g)

\* the comb verdict failing already at a variation of exactly 3 dB
comb_verdict_inclusive(gain_variation) ==
  IF gain_variation >= 30 THEN [result |-> 1, message |-> "WARNING"]
  ELSE IF gain_variation > 10 THEN [result |-> 0, message |-> "CAUTION"]
  ELSE [result |-> 0, message |-> "PASS"]

\* lines 260-269: gain_variation > 3.0, gain_variation > 1.0
comb_verdict(gain_variation) ==
  IF gain_variation > 30 THEN [result |-> 1, message |-> "WARNING"]
  ELSE IF gain_variation > 10 THEN [result |-> 0, message |-> "CAUTION"]
  ELSE [result |-> 0, message |-> "PASS"]

\* correlations the measurement of lines 184-188 may give
Correlations == {0, 89, 90, 100}

\* gain ratios the measurement of line 248 may give
GainValues == {-31, -30, -10, 0}

\* the script before main is called; -1 stands for a value not yet set
ScriptStart ==
  [ pc               |-> "main",
    output           |-> << >>,
    detected_latency |-> -1,
    actual_latency   |-> -1,
    max_output       |-> -1,
    correlation      |-> -1,
    results          |-> << >>,
    gain_variation   |-> -1,
    message          |-> "",
    result           |-> -1,
    main_result      |-> -1,
    comb_result      |-> -1,
    exit_status      |-> -1 ]

InitScript ==
  /\ filter_length \in FilterLengths
  /\ ir_freq_domain = << >>
  /\ input_signal = << >>
  /\ loc = [pc |-> "idle"]
  /\ peer_signal = << >>
  /\ peer = [pc |-> "idle"]
  /\ returned = << >>
  /\ block_sizes = {}
  /\ script = ScriptStart

\* lines 139-140: the test signal, one sample at a time
MainSynthesize ==
  /\ script.pc = "main"
  /\ Size(input_signal) < MaxShort
  /\ \E x \in SampleValues \cup {0} :
       /\ x # 0 => NonZeroCount(input_signal) < MaxNonZero
       /\ input_signal' = Store(input_signal, x)
  /\ UNCHANGED <<script, filter_length, ir_freq_domain, loc,
                 peer_signal, peer, returned, block_sizes>>

\* lines 143-148: build the IR, process the whole signal
MainProcess ==
  /\ script.pc = "main"
  /\ Size(input_signal) = MaxShort
  /\ ir_freq_domain' =
       create_flat_ir_frequency_domain(filter_length, filter_length * 2)
  /\ script' = [script EXCEPT
                  !.output = process_overlap_add(input_signal, ir_freq_domain',
                                                 filter_length),
                  !.pc = "main_detect"]
  /\ UNCHANGED <<filter_length, input_signal, loc,
                 peer_signal, peer, returned, block_sizes>>

\* lines 153-188: the lag the cross-correlation search settles on (any lag
\* below max_lag = 2 * filter_length, 0 when none qualified), the output
\* after it, the correlation measured there
MainDetect ==
  /\ script.pc = "main_detect"
  /\ \E lag \in 0..(filter_length * 2 - 1) : \E corr \in Correlations :
       LET actual == IF lag > 0 THEN lag ELSE filter_length \div 2
       IN  script' = [script EXCEPT
                        !.detected_latency = lag,
                        !.actual_latency   = actual,
                        !.max_output       = MaxAbs(script.output, actual),
                        !.correlation      = corr,
                        !.pc               = "main_verdict"]
  /\ UNCHANGED <<filter_length, ir_freq_domain, input_signal, loc,
                 peer_signal, peer, returned, block_sizes>>

\* lines 198-211: the value main is about to return
MainVerdict ==
  /\ script.pc = "main_verdict"
  /\ LET v == main_verdict(script.max_output, script.correlation)
     IN  script' = [script EXCEPT !.result = v.result,
                                  !.message = v.message,
                                  !.pc = "main_return"]
  /\ UNCHANGED <<filter_length, ir_freq_domain, input_signal, loc,
                 peer_signal, peer, returned, block_sizes>>

\* line 273: result = main(); main's locals are gone
MainReturn ==
  /\ script.pc = "main_return"
  /\ script' = [ScriptStart EXCEPT !.result = script.result,
                                   !.main_result = script.result,
                                   !.pc = "after_main"]
  /\ input_signal' = << >>
  /\ ir_freq_domain' = << >>
  /\ UNCHANGED <<filter_length, loc, peer_signal, peer, returned, block_sizes>>

\* RunComb entered whatever main returned
RunCombAlways ==
  /\ script.pc = "after_main"
  /\ script' = [script EXCEPT !.pc = "comb"]
  /\ UNCHANGED <<filter_length, ir_freq_domain, input_signal, loc,
                 peer_signal, peer, returned, block_sizes>>

\* lines 274-275: if result == 0: call test_comb_filtering
RunComb ==
  /\ script.pc = "after_main"
  /\ script.result = 0
  /\ script' = [script EXCEPT !.pc = "comb"]
  /\ UNCHANGED <<filter_length, ir_freq_domain, input_signal, loc,
                 peer_signal, peer, returned, block_sizes>>

\* lines 233-252: one test frequency measured and appended to results (the
\* 22050-sample signals leave more than 1000 samples after the settling)
CombMeasure ==
  /\ script.pc = "comb"
  /\ Len(script.results) < MaxFreqs
  /\ \E rms_in \in BOOLEAN : \E rms_out \in BOOLEAN :
     \E ratio \in GainValues :
       script' = [script EXCEPT
                    !.results = Append(script.results,
                                  [rms_input_positive  |-> rms_in,
                                   rms_output_positive |-> rms_out,
                                   gain_db |-> GainOf(rms_in, rms_out, ratio)])]
  /\ UNCHANGED <<filter_length, ir_freq_domain, input_signal, loc,
                 peer_signal, peer, returned, block_sizes>>

\* lines 255-269: the value test_comb_filtering is about to return
CombVerdict ==
  /\ script.pc = "comb"
  /\ Len(script.results) = MaxFreqs
  /\ LET variation == GainVariation(script.results)
         v == comb_verdict(variation)
     IN  script' = [script EXCEPT !.gain_variation = variation,
                                  !.result = v.result,
                                  !.message = v.message,
                                  !.pc = "comb_return"]
  /\ UNCHANGED <<filter_length, ir_freq_domain, input_signal, loc,
                 peer_signal, peer, returned, block_sizes>>

\* line 275: result = test_comb_filtering(); its locals are gone
CombReturn ==
  /\ script.pc = "comb_return"
  /\ script' = [ScriptStart EXCEPT !.result = script.result,
                                   !.main_result = script.main_result,
                                   !.comb_result = script.result,
                                   !.pc = "after_comb"]
  /\ UNCHANGED <<filter_length, ir_freq_domain, input_signal, loc,
                 peer_signal, peer, returned, block_sizes>>

\* line 276: sys.exit(result)
Exit ==
  /\ \/ script.pc = "after_main" /\ script.result # 0
     \/ script.pc = "after_comb"
  /\ script' = [script EXCEPT !.exit_status = script.result,
                              !.pc = "exited"]
  /\ UNCHANGED <<filter_length, ir_freq_domain, input_signal, loc,
                 peer_signal, peer, returned, block_sizes>>

NextScript ==
  \/ MainSynthesize
  \/ MainProcess
  \/ MainDetect
  \/ MainVerdict
  \/ MainReturn
  \/ RunComb
  \/ CombMeasure
  \/ CombVerdict
  \/ CombReturn
  \/ Exit

SpecScript == InitScript /\ [][NextScript]_vars

\* ------------------------------------------------------------------ claims
Started == loc.pc # "idle"

\* C1: with the pass-through IR the output is the input delayed by exactly
\* latency = filter_length/2 samples at unity gain: output[i] =
\* input[i - filter_length/2] for every i >= filter_length/2.
C1_DelayIsDeclaredLatency ==
  (Started /\ IsPowerOfTwo(filter_length)) =>
     \A i \in DOMAIN loc.output :
        i >= loc.latency => loc.output[i] = input_signal[i - loc.latency]

\* C2: with the pass-through IR the delay never drifts: every input sample
\* is reproduced at the same distance (three hops) behind its own index,
\* whatever the stream, the number of triggers and the wrap-arounds of the
\* ring buffer, the accumulator and the delay line.
C2_DelayNeverDrifts ==
  (Started /\ IsPowerOfTwo(filter_length)) =>
     \A i \in DOMAIN loc.output :
        loc.output[i] = IF i >= 3 * loc.hop_size
                          THEN input_signal[i - 3 * loc.hop_size]
                          ELSE 0

C2_Witness ==
  /\ Started
  /\ filter_length = 4
  /\ \E i, j \in DOMAIN loc.output :
       /\ i < loc.fft_size * 2
       /\ j >= loc.fft_size * 2
       /\ loc.output[i] # 0
       /\ loc.output[j] # 0

\* C5: a block is triggered exactly once per hop pushed samples: it runs in
\* the step of input sample i iff (i + 1) is a multiple of hop, its add and
\* drain are complete before that step's delay-line read, and it resets
\* samples_in_buffer to 0.
C5_TriggerOncePerHop ==
  Started =>
    /\ Len(loc.triggered) = (loc.i + 1) \div loc.hop_size
    /\ \A k \in 1..Len(loc.triggered) :
          loc.triggered[k] = k * loc.hop_size - 1
    /\ loc.pc \in {"read", "loop", "done"} =>
          /\ loc.drained = loc.triggered
          /\ loc.samples_in_buffer = (loc.i + 1) % loc.hop_size
    /\ loc.pc \in {"gather", "convolve", "add", "drain"} =>
          /\ (loc.i + 1) % loc.hop_size = 0
          /\ loc.triggered = Append(loc.drained, loc.i)

C5_Witness ==
  /\ Started
  /\ loc.pc = "read"
  /\ loc.hop_size = 2
  /\ Len(loc.drained) >= 3
  /\ loc.drained[Len(loc.drained)] = loc.i
  /\ loc.samples_in_buffer = 0

\* C6: latency and hop are filter_length/2 and fft_size is 2*filter_length
\* from the start of processing on; no step, trigger or wrap-around changes
\* them.
C6_DerivedSizesFixed ==
  Started =>
    /\ loc.fft_size = filter_length * 2
    /\ loc.hop_size = filter_length \div 2
    /\ loc.latency = filter_length \div 2
    /\ IsPowerOfTwo(filter_length) =>
          /\ loc.latency * 2 = filter_length
          /\ loc.hop_size * 2 = filter_length

C6_Witness ==
  /\ Started
  /\ filter_length = 4
  /\ loc.i >= loc.fft_size * 2
  /\ Len(loc.drained) > 8
  /\ loc.latency = 2

\* C7: after any number of steps the ring buffer has filter_length cells,
\* the accumulator and the delay line 2*fft_size cells each, and every
\* cursor is in range (samples_in_buffer below hop at the end of a step).
C7_BuffersAndCursorsBounded ==
  Started =>
    /\ DOMAIN loc.input_accum = 0..(filter_length - 1)
    /\ DOMAIN loc.output_accum = 0..(loc.fft_size * 2 - 1)
    /\ DOMAIN loc.latency_delay = 0..(loc.fft_size * 2 - 1)
    /\ loc.input_write_pos \in 0..(filter_length - 1)
    /\ loc.output_read_pos \in 0..(loc.fft_size * 2 - 1)
    /\ loc.delay_write_pos \in 0..(loc.fft_size * 2 - 1)
    /\ loc.delay_read_pos \in 0..(loc.fft_size * 2 - 1)
    /\ loc.pc \in {"loop", "done"} =>
          loc.samples_in_buffer \in 0..(loc.hop_size - 1)

C7_Witness ==
  /\ Started
  /\ loc.pc = "loop"
  /\ loc.i >= loc.fft_size * 2
  /\ filter_length = 4
  /\ loc.delay_read_pos = loc.i + 1 - loc.fft_size * 2
  /\ loc.delay_write_pos > loc.delay_read_pos
  /\ loc.input_write_pos = 0

\* C10: a filter_length that is not a power of two is rejected before any
\* sample is processed: no IR spectrum is built and no call produces output.
C10_NonPowerOfTwoRejected ==
  ~IsPowerOfTwo(filter_length) =>
     /\ ir_freq_domain = << >>
     /\ loc.pc = "idle"

\* C3: the variant that writes the drained value to the delay line without
\* the division by 2 produces, for every stream and every index, exactly
\* twice the output of the original.
C3_NoHalvingDoubles ==
  /\ DOMAIN peer.output = DOMAIN loc.output
  /\ \A i \in DOMAIN loc.output : peer.output[i] = 2 * loc.output[i]

C3_Witness ==
  \E i, j \in DOMAIN loc.output :
     /\ i < j
     /\ loc.output[i] # 0
     /\ loc.output[j] # 0
     /\ peer.output[j] = 2 * loc.output[j]

C8_RerunIdentical ==
  /\ \A k \in 1..Len(returned) :
        returned[k].input_signal = returned[1].input_signal =>
           returned[k].output = returned[1].output
  /\ (returned # << >> /\ loc.pc = "loop") =>
        \A i \in DOMAIN loc.output : loc.output[i] = returned[1].output[i]
  /\ (loc.pc = "loop" /\ loc.i = -1) => loc = InitLocals(filter_length)

C8_Witness ==
  /\ Len(returned) = 2
  /\ returned[2].input_signal = returned[1].input_signal
  /\ \E i \in DOMAIN returned[2].output : returned[2].output[i] # 0

\* C9: two channels sharing one IR are independent: with their process
\* steps interleaved in any order, each channel's output is the output it
\* produces when run alone on its own input.
C9_ChannelsIndependent ==
  /\ loc.output =
       process_overlap_add(input_signal, ir_freq_domain, filter_length)
  /\ peer.output =
       process_overlap_add(peer_signal, ir_freq_domain, filter_length)

C9_Witness ==
  /\ Size(loc.output) = MaxChannel
  /\ Size(peer.output) = MaxChannel
  /\ input_signal # peer_signal
  /\ \E i \in DOMAIN loc.output : loc.output[i] # 0
  /\ \E i \in DOMAIN peer.output : peer.output[i] # 0 /\ loc.output[i] = 0

\* C11: a block whose inverse transform holds NaN or Inf is replaced by
\* zeros before the overlap-add, so no non-finite value ever reaches the
\* accumulator, the delay line or an output sample.
C11_NonFiniteBlockSilenced ==
  /\ \A p \in DOMAIN loc.output_accum : loc.output_accum[p] # NaN
  /\ \A p \in DOMAIN loc.latency_delay : loc.latency_delay[p] # NaN
  /\ \A i \in DOMAIN loc.output : loc.output[i] # NaN

\* C12: with the pass-through IR, from the third trigger on, a cell about
\* to be drained holds non-zero-capable contributions (those from indices
\* hop..3*hop-1 of a block's result) of exactly two blocks, the two before
\* the draining one, both carrying the same input sample; every other
\* contribution is zero and the drained value halved is that sample.
C12_TwoBlocksPerDrainedCell ==
  (Started /\ loc.pc = "drain" /\ IsPowerOfTwo(filter_length)
     /\ Len(loc.triggered) >= 3) =>
    LET k == Len(loc.triggered)
    IN  \A j \in 0..(loc.hop_size - 1) :
          LET p == (loc.output_read_pos + j) % (loc.fft_size * 2)
              sample == input_signal[(k - 3) * loc.hop_size + j]
              capable == {c \in DOMAIN loc.contrib[p] :
                            loc.contrib[p][c].j \in
                               loc.hop_size..(3 * loc.hop_size - 1)}
          IN  /\ Cardinality(capable) = 2
              /\ {loc.contrib[p][c].block : c \in capable} = {k - 2, k - 1}
              /\ \A c \in capable : loc.contrib[p][c].value = sample
              /\ \A c \in DOMAIN loc.contrib[p] \ capable :
                    loc.contrib[p][c].value = 0
              /\ Halve(loc.output_accum[p]) = sample

C12_Witness ==
  /\ Started
  /\ loc.pc = "drain"
  /\ filter_length = 4
  /\ Len(loc.triggered) > 8
  /\ loc.output_accum[loc.output_read_pos] # 0
  /\ loc.output_accum[(loc.output_read_pos + 1) % (loc.fft_size * 2)] = 0

\* C13: at a trigger raised by sample i the transform buffer holds
\* input[i - filter_length + 1 .. i] oldest first in its first
\* filter_length cells (0 for indices before the stream), the sample just
\* pushed at index filter_length - 1, and zeros in the remaining cells.
C13_WindowOldestFirstZeroPadded ==
  (Started /\ loc.pc = "convolve") =>
    /\ DOMAIN loc.fft_buffer = 0..(loc.fft_size - 1)
    /\ \A j \in 0..(filter_length - 1) :
          LET src == loc.i - filter_length + 1 + j
          IN  loc.fft_buffer[j] = IF src < 0 THEN 0 ELSE input_signal[src]
    /\ loc.fft_buffer[filter_length - 1] = input_signal[loc.i]
    /\ \A j \in filter_length..(loc.fft_size - 1) : loc.fft_buffer[j] = 0

C13_Witness ==
  /\ Started
  /\ loc.pc = "convolve"
  /\ filter_length = 4
  /\ loc.input_write_pos = 2
  /\ loc.i > filter_length
  /\ loc.fft_buffer[0] # 0
  /\ loc.fft_buffer[3] # 0
  /\ loc.fft_buffer[1] = 0

\* C14: a block's convolution with the pass-through IR is linear: the
\* result is the window shifted by filter_length/2, time_output[j] =
\* window[j - filter_length/2] for filter_length/2 <= j < 3*filter_length/2,
\* and 0 at every other index, so nothing wraps into the first
\* filter_length/2 cells.
C14_BlockConvolutionLinear ==
  (Started /\ loc.pc = "add") =>
    /\ DOMAIN loc.time_output = 0..(2 * filter_length - 1)
    /\ \A j \in DOMAIN loc.time_output :
          LET half == filter_length \div 2
          IN  loc.time_output[j] =
                IF half <= j /\ j < half + filter_length
                  THEN loc.fft_buffer[j - half]
                  ELSE 0

C14_Witness ==
  /\ Started
  /\ loc.pc = "add"
  /\ filter_length = 4
  /\ loc.fft_buffer[3] # 0
  /\ loc.fft_buffer[0] # 0
  /\ loc.time_output[5] # 0
  /\ loc.time_output[2] # 0
  /\ loc.time_output[0] = 0

\* C15: a trigger drains exactly the hop consecutive accumulator cells
\* starting at output_read_pos: half of each is written to the delay line
\* at consecutive positions from delay_write_pos, delay_write_pos advances
\* by hop, the drained cells are zero afterwards, and no other accumulator
\* cell and no other delay cell is changed by the drain.
C15_DrainMovesOneHop ==
  [][(Started /\ loc.pc = "drain") =>
       LET size == loc.fft_size * 2
           hop  == filter_length \div 2
           InRegion(p, start) == (p - start) % size < hop
       IN  /\ \A j \in 0..(hop - 1) :
                /\ 2 * loc'.latency_delay[(loc.delay_write_pos + j) % size]
                     = loc.output_accum[(loc.output_read_pos + j) % size]
                /\ loc'.output_accum[(loc.output_read_pos + j) % size] = 0
           /\ loc'.delay_write_pos = (loc.delay_write_pos + hop) % size
           /\ \A p \in 0..(size - 1) :
                /\ ~InRegion(p, loc.output_read_pos) =>
                      loc'.output_accum[p] = loc.output_accum[p]
                /\ ~InRegion(p, loc.delay_write_pos) =>
                      loc'.latency_delay[p] = loc.latency_delay[p]]_vars

C15_Witness ==
  /\ Started
  /\ loc.pc = "read"
  /\ filter_length = 4
  /\ Len(loc.drained) > 8
  /\ loc.drained[Len(loc.drained)] = loc.i
  /\ loc.latency_delay[(loc.delay_write_pos - 1) % (loc.fft_size * 2)] # 0
  /\ loc.output_accum[(loc.output_read_pos - 1) % (loc.fft_size * 2)] = 0
  /\ loc.output_accum[loc.output_read_pos] # 0

\* C16: a drained region is cleared before it is written again: the cells
\* a trigger drains are zero when its drain ends, a cleared cell stays
\* zero through every step other than an add that covers it, and the cells
\* an add covers hold only contributions made at the same lap of the
\* circular accumulator, never undrained data of an earlier lap.
C16_ClearedBeforeRewritten ==
  [][(Started /\ loc'.pc # "idle") =>
       LET size == loc.fft_size * 2
           k    == Len(loc.triggered)
           Covered(p) == loc.pc = "add"
                           /\ (p - loc.output_read_pos) % size < loc.fft_size
       IN  /\ loc.pc = "drain" =>
                \A j \in 0..(loc.hop_size - 1) :
                   LET p == (loc.output_read_pos + j) % size
                   IN  loc'.output_accum[p] = 0 /\ loc'.contrib[p] = << >>
           /\ \A p \in 0..(size - 1) :
                (loc.contrib[p] = << >> /\ ~Covered(p)) =>
                   /\ loc.output_accum[p] = 0
                   /\ loc'.output_accum[p] = 0
                   /\ loc'.contrib[p] = << >>
           /\ \A p \in 0..(size - 1) :
                Covered(p) =>
                   \A c \in DOMAIN loc.contrib[p] :
                      ((loc.contrib[p][c].block - 1) * loc.hop_size)
                          + loc.contrib[p][c].j
                        = ((k - 1) * loc.hop_size)
                          + ((p - loc.output_read_pos) % size)]_vars

C16_Witness ==
  /\ Started
  /\ loc.pc = "drain"
  /\ filter_length = 4
  /\ Len(loc.triggered) > 8
  /\ LET size == loc.fft_size * 2
         last == (loc.output_read_pos + loc.fft_size - 1) % size
     IN  /\ loc.output_accum[(last - 2) % size] # 0
         /\ Len(loc.contrib[last]) = 1
         /\ loc.contrib[(loc.output_read_pos - 1) % size] = << >>

\* C17: with the pass-through IR, at the end of every process step each
\* non-zero accumulator cell owes its content to the last one or two
\* triggered blocks only, and every cell outside the fft_size cells that
\* start at output_read_pos is zero.
C17_OnlyPendingTails ==
  (Started /\ loc.pc \in {"loop", "done"} /\ IsPowerOfTwo(filter_length)) =>
    LET size == loc.fft_size * 2
        k    == Len(loc.triggered)
    IN  \A p \in 0..(size - 1) :
          /\ (p - loc.output_read_pos) % size >= loc.fft_size =>
                loc.output_accum[p] = 0
          /\ loc.output_accum[p] # 0 =>
                \A c \in DOMAIN loc.contrib[p] :
                   loc.contrib[p][c].value # 0 =>
                      loc.contrib[p][c].block \in {k - 1, k}

C17_Witness ==
  /\ Started
  /\ loc.pc = "loop"
  /\ filter_length = 4
  /\ Len(loc.triggered) > 8
  /\ \E p, q \in DOMAIN loc.output_accum :
        /\ \E c \in DOMAIN loc.contrib[p] :
              /\ loc.contrib[p][c].value # 0
              /\ loc.contrib[p][c].block = Len(loc.triggered) - 1
        /\ \E c \in DOMAIN loc.contrib[q] :
              /\ loc.contrib[q][c].value # 0
              /\ loc.contrib[q][c].block = Len(loc.triggered)

\* C18: the add and drain regions advance by exactly hop per trigger,
\* modulo 2*fft_size, and at no other step: once k triggers have completed
\* output_read_pos = (k * hop) mod (2*fft_size), the add of the next
\* trigger writes exactly the fft_size cells starting there, and the add
\* itself moves no cursor.
C18_RegionsAdvanceByHop ==
  [][(Started /\ loc'.pc # "idle") =>
       LET size  == loc.fft_size * 2
           hop   == filter_length \div 2
           start == (Len(loc.drained) * hop) % size
       IN  /\ loc.output_read_pos = start
           /\ loc.pc = "drain" =>
                 loc'.output_read_pos = (loc.output_read_pos + hop) % size
           /\ loc.pc # "drain" =>
                 loc'.output_read_pos = loc.output_read_pos
           /\ loc.pc = "add" =>
                 /\ loc'.delay_write_pos = loc.delay_write_pos
                 /\ loc'.delay_read_pos = loc.delay_read_pos
                 /\ loc'.input_write_pos = loc.input_write_pos
                 /\ \A p \in 0..(size - 1) :
                       loc'.output_accum[p] =
                         IF (p - start) % size < loc.fft_size
                           THEN loc.output_accum[p]
                                  + loc.time_output[(p - start) % size]
                           ELSE loc.output_accum[p]]_vars

C18_Witness ==
  /\ Started
  /\ loc.pc = "drain"
  /\ filter_length = 4
  /\ Len(loc.drained) = 6
  /\ loc.output_read_pos = 12
  /\ loc.output_accum[1] # 0
  /\ loc.time_output[5] # 0

\* C19: the delay write cursor leads the read cursor by exactly latency =
\* filter_length/2 at initialisation and at the end of every process step
\* that triggered a block, and at the end of every process step the lead
\* modulo 2*fft_size is between 1 and filter_length/2.
C19_WriteLeadsRead ==
  (Started /\ loc.pc \in {"loop", "done"}) =>
    LET size == loc.fft_size * 2
        lead == (loc.delay_write_pos - loc.delay_read_pos) % size
        n    == Len(loc.triggered)
    IN  /\ loc.latency = filter_length \div 2
        /\ 1 <= lead
        /\ lead <= filter_length \div 2
        /\ loc.i = -1 => lead = loc.latency
        /\ (n > 0 /\ loc.triggered[n] = loc.i) => lead = loc.latency

C19_Witness ==
  /\ Started
  /\ loc.pc = "loop"
  /\ filter_length = 4
  /\ Len(loc.triggered) > 0
  /\ loc.triggered[Len(loc.triggered)] = loc.i
  /\ loc.delay_write_pos = 0
  /\ loc.delay_read_pos = 14

\* C20: after n pushes input_write_pos = n mod filter_length; a push
\* changes only the cell at the write cursor, which holds the oldest
\* sample, and a pushed sample stays in its cell through the next
\* filter_length - 1 pushes and is replaced by the push after those.
C20_RingBufferOverwritesOldest ==
  [][(Started /\ loc'.pc # "idle") =>
       LET n == loc.i + 1
           L == filter_length
       IN  /\ loc.input_write_pos = n % L
           /\ \A m \in 0..(n - 1) :
                 m >= n - L => loc.input_accum[m % L] = input_signal[m]
           /\ IF loc'.i = loc.i + 1
                THEN /\ loc'.input_write_pos = (n + 1) % L
                     /\ loc'.input_accum[n % L] = input_signal'[n]
                     /\ \A c \in 0..(L - 1) :
                           c # n % L =>
                              loc'.input_accum[c] = loc.input_accum[c]
                     /\ n >= L => loc.input_accum[n % L] = input_signal[n - L]
                ELSE /\ loc'.input_write_pos = loc.input_write_pos
                     /\ loc'.input_accum = loc.input_accum]_vars

C20_Witness ==
  /\ Started
  /\ loc.pc = "loop"
  /\ filter_length = 4
  /\ loc.i = 10
  /\ loc.input_write_pos = 3
  /\ input_signal[7] # 0
  /\ loc.input_accum[3] = input_signal[7]
  /\ input_signal[3] = 0
  /\ input_signal[10] # 0
  /\ loc.input_accum[2] = input_signal[10]

\* C21: assembling the snapshot is read-only on the input ring buffer:
\* input_write_pos and every cell of input_accum are the same after the
\* snapshot, the transform, the add and the drain of a trigger as they
\* were immediately before the snapshot.
C21_SnapshotReadOnly ==
  [][(Started /\ loc.pc \in {"gather", "convolve", "add", "drain"}) =>
       /\ loc'.input_write_pos = loc.input_write_pos
       /\ loc'.input_accum = loc.input_accum
       /\ loc'.pc = CASE loc.pc = "gather"   -> "convolve"
                      [] loc.pc = "convolve" -> "add"
                      [] loc.pc = "add"      -> "drain"
                      [] loc.pc = "drain"    -> "read"]_vars

C21_Witness ==
  /\ Started
  /\ loc.pc = "read"
  /\ filter_length = 4
  /\ Len(loc.drained) > 2
  /\ loc.drained[Len(loc.drained)] = loc.i
  /\ loc.fft_buffer[3] # 0
  /\ loc.fft_buffer[1] # 0
  /\ loc.input_accum[(loc.input_write_pos - 1) % 4] = loc.fft_buffer[3]
  /\ loc.input_accum[(loc.input_write_pos - 3) % 4] = loc.fft_buffer[1]

\* C22: the IR is read-only during processing: no step of a run writes
\* ir_freq_domain or a sample of input_signal already supplied, so every
\* block of a run, and every later run on the same IR, sees the IR that
\* was built.
C22_IrReadOnly ==
  [][ir_freq_domain # << >> =>
       /\ ir_freq_domain =
            create_flat_ir_frequency_domain(filter_length, filter_length * 2)
       /\ ir_freq_domain' = ir_freq_domain
       /\ loc.pc = "loop" =>
             \A m \in DOMAIN input_signal :
                input_signal'[m] = input_signal[m]]_vars

C22_Witness ==
  /\ Len(returned) = 1
  /\ loc.pc = "loop"
  /\ Len(loc.triggered) >= 3
  /\ \E i \in DOMAIN loc.output : loc.output[i] # 0
  /\ ir_freq_domain =
       create_flat_ir_frequency_domain(filter_length, filter_length * 2)

\* C23: the IR built for filter_length carries exactly filter_length + 1
\* complex bins, bin k as real part at index 2k and imaginary part at
\* index 2k+1 of the interleaved array and zeros after them; the
\* de-interleaving of a block recovers these bins in order, so bin k of the
\* input spectrum is multiplied by bin k of the IR for k in 0..filter_length.
C23_BinsInterleavedInOrder ==
  ir_freq_domain # << >> =>
    LET L       == filter_length
        impulse == [j \in 0..(2 * L - 1) |-> IF j = L \div 2 THEN 1 ELSE 0]
        bins    == rfft(impulse, 2 * L)
        ir      == ir_freq_domain
    IN  /\ DOMAIN ir = 0..(4 * L - 1)
        /\ DOMAIN bins = 0..L
        /\ Cardinality({c \in DOMAIN ir : ir[c].part = "re"}) = L + 1
        /\ Cardinality({c \in DOMAIN ir : ir[c].part = "im"}) = L + 1
        /\ \A k \in 0..L :
              /\ bins[k].bin = k
              /\ ir[2 * k] = RealPart(bins[k])
              /\ ir[2 * k + 1] = ImagPart(bins[k])
              /\ Complex(ir[2 * k], ir[2 * k + 1]) = bins[k]
        /\ \A c \in (2 * L + 2)..(4 * L - 1) : ir[c] = ZeroCell
        /\ (Started /\ loc.pc = "add") =>
              LET freq_input == rfft(loc.fft_buffer, loc.fft_size)
              IN  /\ DOMAIN freq_input = 0..L
                  /\ \A k \in 0..L :
                        ComplexMul(freq_input[k],
                                   Complex(ir[2 * k], ir[2 * k + 1]))
                          = [bin |-> k, n |-> 2 * L,
                             of |-> <<loc.fft_buffer, impulse>>]
                  /\ loc.time_output =
                       CircConv(loc.fft_buffer, impulse, 2 * L)

C23_Witness ==
  /\ Started
  /\ loc.pc = "add"
  /\ filter_length = 4
  /\ ir_freq_domain[8].part = "re"
  /\ ir_freq_domain[8].c.bin = 4
  /\ ir_freq_domain[9].part = "im"
  /\ ir_freq_domain[10] = ZeroCell
  /\ loc.time_output[3] # 0

\* C24: the delay line is a lossless FIFO: the output stream is
\* filter_length/2 zeros followed by the drained samples in the order they
\* were drained, each read once; a sample written and not yet read is still
\* in its cell, and a drain overwrites only cells whose sample has been read.
C24_DelayLineFifo ==
  (Started /\ loc.pc \in {"loop", "drain", "done"}) =>
    LET size  == loc.fft_size * 2
        half  == filter_length \div 2
        reads == Size(loc.output)
        wrote == Len(loc.written)
    IN  /\ \A i \in DOMAIN loc.output :
              loc.output[i] = IF i < half THEN 0 ELSE loc.written[i - half + 1]
        /\ reads - half <= wrote
        /\ wrote - (reads - half) <= size
        /\ \A w \in 0..(wrote - 1) :
              w + half >= reads =>
                 loc.latency_delay[(half + w) % size] = loc.written[w + 1]
        /\ loc.pc = "drain" =>
              \A j \in 0..(half - 1) :
                 LET old == wrote + j - size
                 IN  /\ (half + wrote + j) % size
                          = (loc.delay_write_pos + j) % size
                     /\ old + half < reads

C24_Witness ==
  /\ Started
  /\ loc.pc = "loop"
  /\ filter_length = 4
  /\ Size(loc.output) > 18
  /\ Len(loc.written) > 16
  /\ loc.output[18] # 0
  /\ loc.output[18] = loc.written[17]
  /\ loc.output[17] = 0

\* C25: for every input stream and every IR the first filter_length/2
\* output samples are exactly 0: the delay cells read for them are initial
\* zeros, which no drain writes before the write cursor has gone all the
\* way round the delay line.
C25_FirstHalfSilent ==
  LET size == loc.fft_size * 2
      half == filter_length \div 2
  IN  /\ \A i \in DOMAIN loc.output : i < half => loc.output[i] = 0
      /\ Len(loc.written) <= size - half =>
            \A c \in 0..(half - 1) : loc.latency_delay[c] = 0

C25_Witness ==
  /\ filter_length = 4
  /\ Size(loc.output) = 3
  /\ loc.output[0] = 0
  /\ loc.output[1] = 0
  /\ loc.output[2] # 0
  /\ input_signal[0] # 0
  /\ input_signal[1] = NaN

\* C26: main returns 1 exactly when the largest absolute output after the
\* latency is below 0.001; otherwise it returns 0, whether or not the
\* correlation is below 0.9 (a warning only) and whatever latency was
\* detected.
C26_MainFailsOnlyOnSilence ==
  script.pc = "main_return" =>
    LET actual == IF script.detected_latency > 0
                    THEN script.detected_latency
                    ELSE filter_length \div 2
        silent == \A i \in DOMAIN script.output :
                     i >= actual => Abs(script.output[i]) * 1000 < 2
    IN  /\ script.result \in {0, 1}
        /\ script.result = 1 <=> silent
        /\ script.max_output = MaxAbs(script.output, actual)
        /\ (script.result = 0 /\ script.correlation < 90) =>
              script.message = "WARNING"
        /\ script.result = 1 => script.message = "FAIL"

C26_Witness ==
  /\ script.pc = "main_return"
  /\ filter_length = 4
  /\ script.result = 0
  /\ script.correlation = 89
  /\ script.detected_latency = 6
  /\ script.message = "WARNING"
  /\ script.max_output = 2

\* C27: test_comb_filtering returns 1 exactly when the largest measured
\* gain exceeds the smallest by more than 3.0 dB; a variation above 1.0 and
\* at most 3.0 dB returns 0 with a caution, one of at most 1.0 dB returns 0
\* as a pass, and a frequency without input or output signal is compared
\* with the gain -100 dB.
C27_CombFailsAboveThreeDb ==
  script.pc = "comb_return" =>
    LET rs == script.results
        v  == script.gain_variation
    IN  /\ Len(rs) = MaxFreqs
        /\ \E hi, lo \in DOMAIN rs :
              /\ v = rs[hi].gain_db - rs[lo].gain_db
              /\ \A k \in DOMAIN rs :
                    rs[lo].gain_db <= rs[k].gain_db
                      /\ rs[k].gain_db <= rs[hi].gain_db
        /\ \A k \in DOMAIN rs :
              ~(rs[k].rms_input_positive /\ rs[k].rms_output_positive) =>
                 rs[k].gain_db = -1000
        /\ script.result = 1 <=> v > 30
        /\ (10 < v /\ v <= 30) =>
              script.result = 0 /\ script.message = "CAUTION"
        /\ v <= 10 => script.result = 0 /\ script.message = "PASS"

C27_Witness ==
  /\ script.pc = "comb_return"
  /\ script.gain_variation = 30
  /\ script.result = 0
  /\ script.message = "CAUTION"
  /\ \E k \in DOMAIN script.results : script.results[k].gain_db = -30

\* C28: test_comb_filtering runs only after main returned 0, and the exit
\* status is the result of the last check that ran: non-zero exactly when
\* main returned non-zero or, main having returned 0, test_comb_filtering
\* returned non-zero.
C28_ExitIsLastResult ==
  /\ script.pc \in {"comb", "comb_return", "after_comb"} =>
        script.main_result = 0
  /\ script.pc = "exited" =>
        /\ script.main_result \in {0, 1}
        /\ script.main_result # 0 =>
              script.comb_result = -1 /\ script.exit_status = script.main_result
        /\ script.main_result = 0 =>
              script.comb_result \in {0, 1}
                /\ script.exit_status = script.comb_result
        /\ script.exit_status # 0 <=>
              \/ script.main_result # 0
              \/ script.main_result = 0 /\ script.comb_result > 0

C28_Witness ==
  /\ script.pc = "exited"
  /\ script.main_result = 0
  /\ script.comb_result = 1
  /\ script.exit_status = 1

=============================================================================
